---------------------------- MODULE Spec2Model ----------------------------
(***************************************************************************)
(* Bus driver and chip-command sequencer of the AVR parallel-EEPROM        *)
(* programmer (src/src/main.cpp).                                          *)
(*                                                                         *)
(* The controller program is modelled statement by statement: `op` is the  *)
(* command handler that is running, `fn` the Bus function it is inside,    *)
(* and `pc` the next statement of that function.  The pins, the two        *)
(* external address latches and the memory device react to every pin       *)
(* change in the same step (operator Hardware).                            *)
(*                                                                         *)
(* Assumptions about what main.cpp does not contain:                       *)
(*  - the pin library (core/io.hpp) follows sections 4.1 and 4.2 of the    *)
(*    specification;                                                       *)
(*  - the memory device is an AT28C64B-class part: 13 address lines, the   *)
(*    software-data-protection command set of its datasheet, address       *)
(*    taken on the falling edge of write-enable and data on the rising     *)
(*    edge; a byte write is complete when the byte-load window closes,     *)
(*    and the window closes between two command-line operations and in     *)
(*    every millisecond delay; write cycles that form a command are not    *)
(*    stored as data, and the erase command is honoured whether or not     *)
(*    protection is enabled;                                               *)
(*  - a control or strobe line acts on the latches and on the device only  *)
(*    while its pin is output-configured (the board holds an undriven      *)
(*    line idle); undriven data lines carry an arbitrary byte.             *)
(***************************************************************************)
EXTENDS Integers, Sequences, FiniteSets, TLC

(* ------------------------------ bounds ------------------------------ *)
\* how many addresses of AddrPool a caller may pass to read_bus / write_bus
NumAddrs == 2
\* how many bytes of BytePool a caller may pass to write_bus
NumBytes == 2
\* how many bytes of FloatPool undriven data lines may carry
NumFloat == 2
\* how many bytes of InitPool a memory cell may hold at power-on
NumInit == 1

AddrPool == <<0, \H1234, \H2000, \H1555, \H5555>>
BytePool == <<0, \HAB, \HCD, \HAA, \H55>>
FloatPool == <<0, \H12, \HFF>>
InitPool == <<\H3C, 0, \HFF>>

Addrs == {AddrPool[i] : i \in 1..NumAddrs}
Bytes == {BytePool[i] : i \in 1..NumBytes}
FloatBytes == {FloatPool[i] : i \in 1..NumFloat}
InitBytes == {InitPool[i] : i \in 1..NumInit}

(* --------------------------- word arithmetic ------------------------- *)
\* WordExtend<AddressMSB, AddressLSB>: the two bytes of a 16-bit address
HiByte(a) == (a \div 256) % 256
LoByte(a) == a % 256
Word(hi, lo) == hi * 256 + lo

\* the device decodes 13 address lines (8K x 8)
DevAddr(a) == a % 8192

\* the device's two command addresses, as decoded
CmdAddr1 == DevAddr(\H5555)
CmdAddr2 == DevAddr(\HAAAA)

\* the cells of the device the model follows
Cells == {DevAddr(a) : a \in Addrs} \cup {CmdAddr1, CmdAddr2}

VARIABLES
  op,        \* running command handler, "idle" when none
  fn,        \* Bus function being executed, "none" outside
  pc,        \* next statement
  addr,      \* argument of the current read_bus / write_bus
  data,      \* argument of the current write_bus
  seqIdx,    \* number of write_bus calls the running command has made
  remaining, \* milliseconds left of the running delay()
  ret,       \* value returned by the last read_bus of this operation, -1 if none
  dataDir,   \* direction of DataPort: "in" or "out"
  dataPort,  \* output register of DataPort
  pins,      \* strobe and control pins: direction and output level
  latchMSB,  \* byte held by the external MSB address latch
  latchLSB,  \* byte held by the external LSB address latch
  mem,       \* device: stored bytes of the followed cells
  sdp,       \* device: software data protection enabled
  cmd,       \* device: number of command-prefix cycles loaded in this window
  devA,      \* device: address bus value taken at the fall of write-enable,
             \* 0 outside a write cycle
  trace,     \* pin operations of the current Bus function call
  cycles,    \* write cycles the device has seen during this operation
  entry,     \* bus and device state when the running handler was called
  waited,    \* milliseconds delayed since the last Bus call of this operation
  lastCmd,   \* last protection command completed: "none", "unlock", "lock",
             \* or "relock" for a lock() that came after an unlock()
  mon        \* the operations completed since the last write_bus or erase

hw == <<dataDir, dataPort, pins, latchMSB, latchLSB>>
dev == <<mem, sdp, cmd, devA>>
hist == <<lastCmd, mon>>
vars == <<op, fn, pc, addr, data, seqIdx, remaining, ret, dataDir, dataPort,
          pins, latchMSB, latchLSB, mem, sdp, cmd, devA, trace, cycles,
          entry, waited, lastCmd, mon>>

Ev(k, v) == [k |-> k, v |-> v]

(* ------------------------------- pins -------------------------------- *)
PinNames == {"msb", "lsb", "re", "we"}

\* ActiveLow<PIN>: asserted is the low level, idle the high level
ActiveLowEnable == 0
ActiveLowDisable == 1
\* ActiveHigh<PIN>: asserted is the high level, idle the low level
ActiveHighEnable == 1
ActiveHighDisable == 0

Driven(p) == p.dir = "out"
\* a line is asserted when its pin drives the asserting level
ReadEnabled(ps) == Driven(ps["re"]) /\ ps["re"].lvl = ActiveLowEnable
WriteEnabled(ps) == Driven(ps["we"]) /\ ps["we"].lvl = ActiveLowEnable
Strobed(p) == Driven(p) /\ p.lvl = ActiveHighEnable

(* ------------------------------ device ------------------------------- *)
\* the five cycles every six-cycle command starts with; the first two also
\* start the three-cycle protection-enable command
CmdPrefix ==
  << [a |-> CmdAddr1, d |-> \HAA], [a |-> CmdAddr2, d |-> \H55],
     [a |-> CmdAddr1, d |-> \H80], [a |-> CmdAddr1, d |-> \HAA],
     [a |-> CmdAddr2, d |-> \H55] >>

Store(m, a, d) == IF a \in DOMAIN m THEN [m EXCEPT ![a] = d] ELSE m

RECURSIVE StoreAll(_, _)
StoreAll(m, ws) ==
  IF ws = <<>> THEN m
  ELSE StoreAll(Store(m, Head(ws).a, Head(ws).d), Tail(ws))

\* the byte-load window closes: the loaded cycles were not a command, so
\* they are written as data unless the device is protected
Commit(m, s, k) == IF s THEN m ELSE StoreAll(m, SubSeq(CmdPrefix, 1, k))

\* one write cycle (a, d) reaches the device in state (m, s, k)
DevWrite(m, s, k, a, d) ==
  LET c == [a |-> a, d |-> d] IN
  IF k = 2 /\ c = [a |-> CmdAddr1, d |-> \HA0]
    THEN [mem |-> m, sdp |-> TRUE, cmd |-> 0]
  ELSE IF k = 5 /\ c = [a |-> CmdAddr1, d |-> \H10]
    THEN [mem |-> [x \in DOMAIN m |-> \HFF], sdp |-> s, cmd |-> 0]
  ELSE IF k = 5 /\ c = [a |-> CmdAddr1, d |-> \H20]
    THEN [mem |-> m, sdp |-> FALSE, cmd |-> 0]
  ELSE IF k < 5 /\ c = CmdPrefix[k + 1]
    THEN [mem |-> m, sdp |-> s, cmd |-> k + 1]
  ELSE IF c = CmdPrefix[1]
    THEN [mem |-> Commit(m, s, k), sdp |-> s, cmd |-> 1]
  ELSE [mem |-> IF s THEN m ELSE Store(Commit(m, s, k), a, d),
        sdp |-> s, cmd |-> 0]

\* what a read of cell a can put on the data lines
MemRead(m, a) == IF a \in DOMAIN m THEN {m[a]} ELSE FloatBytes

\* the bytes the shared data lines can carry
BusVals(dd, dp, ps, m, hi, lo) ==
  LET out == MemRead(m, DevAddr(Word(hi, lo))) IN
  IF dd = "out" THEN (IF ReadEnabled(ps) THEN {dp} \cup out ELSE {dp})
  ELSE IF ReadEnabled(ps) THEN out
  ELSE FloatBytes

\* a transparent latch follows the data lines while strobed, else holds
LatchNext(p, old, vals) == IF Strobed(p) THEN vals ELSE {old}

\* the byte-load window of the device closes
WindowCloses ==
  /\ mem' = Commit(mem, sdp, cmd)
  /\ cmd' = 0
  /\ UNCHANGED <<sdp, devA>>

\* reaction of the latches and the device to the pin change of this step
Hardware ==
  /\ \E m \in LatchNext(pins'["msb"], latchMSB,
                BusVals(dataDir', dataPort', pins', mem, latchMSB, latchLSB)) :
       latchMSB' = m
  /\ \E l \in LatchNext(pins'["lsb"], latchLSB,
                BusVals(dataDir', dataPort', pins', mem, latchMSB, latchLSB)) :
       latchLSB' = l
  /\ IF ~WriteEnabled(pins) /\ WriteEnabled(pins')
       THEN /\ devA' = Word(latchMSB', latchLSB')
            /\ UNCHANGED <<mem, sdp, cmd, cycles>>
     ELSE IF WriteEnabled(pins) /\ ~WriteEnabled(pins')
       THEN \E d \in BusVals(dataDir, dataPort, pins, mem, latchMSB, latchLSB) :
              LET r == DevWrite(mem, sdp, cmd, DevAddr(devA), d) IN
              /\ mem' = r.mem /\ sdp' = r.sdp /\ cmd' = r.cmd
              /\ cycles' = Append(cycles, [a |-> devA, d |-> d])
              /\ devA' = 0
     ELSE UNCHANGED <<mem, sdp, cmd, devA, cycles>>

(* --------------------------- pin operations -------------------------- *)
\* one statement of a Bus function: the pins change, the hardware reacts,
\* the statement is recorded and control moves to the next statement
Stmt(f, here, next, dd, dp, ps, evs) ==
  /\ fn = f /\ pc = here
  /\ pc' = next
  /\ dataDir' = dd /\ dataPort' = dp /\ pins' = ps
  /\ trace' = trace \o evs
  /\ Hardware
  /\ UNCHANGED <<op, fn, addr, data, seqIdx, remaining, ret, entry, waited, hist>>

SetLvl(ps, n, l) == [ps EXCEPT ![n].lvl = l]
\* ActiveLow / ActiveHigh config_output: idle level first, then output
ConfigOut(ps, n, idle) == [ps EXCEPT ![n] = [dir |-> "out", lvl |-> idle]]


(* ------------------- AddressPort (WordExtend of Latch) ---------------- *)
\* WordExtend<AddressMSB, AddressLSB>: the latch of the high byte, then the
\* latch of the low byte
\* mutation: the two latches are exchanged
AddressPort_swapped == <<"lsb", "msb">>
AddressPort == <<"msb", "lsb">>

\* AddressPort::config_output(): both strobe lines idle and output
AddressPort_config_output(f, here, next) ==
  Stmt(f, here, next, dataDir, dataPort,
       ConfigOut(ConfigOut(pins, AddressPort[1], ActiveHighDisable),
                 AddressPort[2], ActiveHighDisable),
       <<Ev("dir_" \o AddressPort[1], 1), Ev("dir_" \o AddressPort[2], 1)>>)

\* AddressPort::write(addr): the high byte goes to the first latch, then
\* the low byte to the second; a latch write drives the byte and pulses the
\* strobe
AddressPort_write(f, next) ==
  \/ Stmt(f, "aw_hi_data", "aw_hi_en", dataDir, HiByte(addr), pins,
          <<Ev("data_write", HiByte(addr))>>)
  \/ Stmt(f, "aw_hi_en", "aw_hi_dis", dataDir, dataPort,
          SetLvl(pins, AddressPort[1], ActiveHighEnable), <<Ev(AddressPort[1], 1)>>)
  \/ Stmt(f, "aw_hi_dis", "aw_lo_data", dataDir, dataPort,
          SetLvl(pins, AddressPort[1], ActiveHighDisable), <<Ev(AddressPort[1], 0)>>)
  \/ Stmt(f, "aw_lo_data", "aw_lo_en", dataDir, LoByte(addr), pins,
          <<Ev("data_write", LoByte(addr))>>)
  \/ Stmt(f, "aw_lo_en", "aw_lo_dis", dataDir, dataPort,
          SetLvl(pins, AddressPort[2], ActiveHighEnable), <<Ev(AddressPort[2], 1)>>)
  \/ Stmt(f, "aw_lo_dis", next, dataDir, dataPort,
          SetLvl(pins, AddressPort[2], ActiveHighDisable), <<Ev(AddressPort[2], 0)>>)

(* --------------------------------- Bus -------------------------------- *)
config_write_AddressPort ==
  AddressPort_config_output("config_write", "cw_addr", "cw_data")
\* mutation: the data port keeps its direction
config_write_DataPort_omitted ==
  Stmt("config_write", "cw_data", "cw_re", dataDir, dataPort, pins, <<>>)
config_write_DataPort ==
  Stmt("config_write", "cw_data", "cw_re", "out", dataPort, pins,
       <<Ev("dir_data", 1)>>)
\* mutation: read-enable is left as it was
config_write_ReadEnable_omitted ==
  Stmt("config_write", "cw_re", "cw_we", dataDir, dataPort, pins, <<>>)
config_write_ReadEnable ==
  Stmt("config_write", "cw_re", "cw_we", dataDir, dataPort,
       ConfigOut(pins, "re", ActiveLowDisable), <<Ev("dir_re", 1)>>)
config_write_WriteEnable ==
  Stmt("config_write", "cw_we", "ret", dataDir, dataPort,
       ConfigOut(pins, "we", ActiveLowDisable), <<Ev("dir_we", 1)>>)

config_write ==
  \/ config_write_AddressPort
  \/ config_write_DataPort
  \/ config_write_ReadEnable
  \/ config_write_WriteEnable

write_bus_AddressPort == AddressPort_write("write_bus", "wb_we_en")
\* mutation: read-enable is asserted where write-enable is meant
write_bus_WriteEnable_enable_wrong_line ==
  Stmt("write_bus", "wb_we_en", "wb_data", dataDir, dataPort,
       SetLvl(pins, "re", ActiveLowEnable), <<Ev("re", 1)>>)
write_bus_WriteEnable_enable ==
  Stmt("write_bus", "wb_we_en", "wb_data", dataDir, dataPort,
       SetLvl(pins, "we", ActiveLowEnable), <<Ev("we", 1)>>)
\* mutation: write_bus switches the data port to output itself
write_bus_DataPort_configures_output ==
  Stmt("write_bus", "wb_data", "wb_we_dis", "out", data, pins,
       <<Ev("dir_data", 1), Ev("data_write", data)>>)
\* mutation: the data byte is never driven
write_bus_DataPort_omitted ==
  Stmt("write_bus", "wb_data", "wb_we_dis", dataDir, dataPort, pins, <<>>)
write_bus_DataPort ==
  Stmt("write_bus", "wb_data", "wb_we_dis", dataDir, data, pins,
       <<Ev("data_write", data)>>)
\* mutation: write-enable is never released
write_bus_WriteEnable_disable_omitted ==
  Stmt("write_bus", "wb_we_dis", "ret", dataDir, dataPort, pins, <<>>)
write_bus_WriteEnable_disable ==
  Stmt("write_bus", "wb_we_dis", "ret", dataDir, dataPort,
       SetLvl(pins, "we", ActiveLowDisable), <<Ev("we", 0)>>)

write_bus ==
  \/ write_bus_AddressPort
  \/ write_bus_WriteEnable_enable
  \/ write_bus_DataPort
  \/ write_bus_WriteEnable_disable

config_read_AddressPort ==
  AddressPort_config_output("config_read", "cr_addr", "cr_data")
config_read_DataPort ==
  Stmt("config_read", "cr_data", "cr_re", "in", dataPort, pins,
       <<Ev("dir_data", 0)>>)
config_read_ReadEnable ==
  Stmt("config_read", "cr_re", "cr_we", dataDir, dataPort,
       ConfigOut(pins, "re", ActiveLowDisable), <<Ev("dir_re", 1)>>)
config_read_WriteEnable ==
  Stmt("config_read", "cr_we", "ret", dataDir, dataPort,
       ConfigOut(pins, "we", ActiveLowDisable), <<Ev("dir_we", 1)>>)

config_read ==
  \/ config_read_AddressPort
  \/ config_read_DataPort
  \/ config_read_ReadEnable
  \/ config_read_WriteEnable

read_bus_DataPort_output ==
  Stmt("read_bus", "rb_out", "aw_hi_data", "out", dataPort, pins,
       <<Ev("dir_data", 1)>>)
\* mutation: the address is not latched
read_bus_AddressPort_omitted ==
  Stmt("read_bus", "aw_hi_data", "rb_in", dataDir, dataPort, pins, <<>>)
read_bus_AddressPort == AddressPort_write("read_bus", "rb_in")
\* mutation: config_output() where config_input() is meant
read_bus_DataPort_input_as_output ==
  Stmt("read_bus", "rb_in", "rb_re_en", "out", dataPort, pins,
       <<Ev("dir_data", 1)>>)
\* mutation: the data port stays in output mode
read_bus_DataPort_input_omitted ==
  Stmt("read_bus", "rb_in", "rb_re_en", dataDir, dataPort, pins, <<>>)
read_bus_DataPort_input ==
  Stmt("read_bus", "rb_in", "rb_re_en", "in", dataPort, pins,
       <<Ev("dir_data", 0)>>)
\* mutation: only one settle cycle before the data port is sampled
read_bus_ReadEnable_enable_one_nop ==
  Stmt("read_bus", "rb_re_en", "rb_nop2", dataDir, dataPort,
       SetLvl(pins, "re", ActiveLowEnable), <<Ev("re", 1)>>)
read_bus_ReadEnable_enable ==
  Stmt("read_bus", "rb_re_en", "rb_nop1", dataDir, dataPort,
       SetLvl(pins, "re", ActiveLowEnable), <<Ev("re", 1)>>)
read_bus_nop1 ==
  Stmt("read_bus", "rb_nop1", "rb_nop2", dataDir, dataPort, pins,
       <<Ev("nop", 0)>>)
\* mutation: the settle wait polls the data lines until the device
\* drives something other than 0xFF
read_bus_nop2_polls ==
  Stmt("read_bus", "rb_nop2",
       IF \HFF \in BusVals(dataDir, dataPort, pins, mem, latchMSB, latchLSB)
         THEN "rb_nop2" ELSE "rb_sample",
       dataDir, dataPort, pins,
       IF \HFF \in BusVals(dataDir, dataPort, pins, mem, latchMSB, latchLSB)
         THEN << >> ELSE <<Ev("nop", 0)>>)
read_bus_nop2 ==
  Stmt("read_bus", "rb_nop2", "rb_sample", dataDir, dataPort, pins,
       <<Ev("nop", 0)>>)
\* const DATA_TYPE data = DataPort::read()
read_bus_DataPort_read ==
  /\ fn = "read_bus" /\ pc = "rb_sample"
  /\ pc' = "rb_re_dis"
  /\ \E v \in BusVals(dataDir, dataPort, pins, mem, latchMSB, latchLSB) :
       /\ ret' = v
       /\ trace' = Append(trace, Ev("sample", v))
  /\ UNCHANGED <<op, fn, addr, data, seqIdx, remaining>>
  /\ UNCHANGED <<hw, dev, cycles, entry, waited, hist>>
\* mutation: read-enable is never released
read_bus_ReadEnable_disable_omitted ==
  Stmt("read_bus", "rb_re_dis", "ret", dataDir, dataPort, pins, <<>>)
read_bus_ReadEnable_disable ==
  Stmt("read_bus", "rb_re_dis", "ret", dataDir, dataPort,
       SetLvl(pins, "re", ActiveLowDisable), <<Ev("re", 0)>>)

read_bus ==
  \/ read_bus_DataPort_output
  \/ read_bus_AddressPort
  \/ read_bus_DataPort_input
  \/ read_bus_ReadEnable_enable
  \/ read_bus_nop1
  \/ read_bus_nop2
  \/ read_bus_DataPort_read
  \/ read_bus_ReadEnable_disable

(* -------------------------- command sequencer ------------------------- *)
W(a, d) == [a |-> a, d |-> d]

\* mutation: the last byte is the one of unlock
erase_writes_wrong_code ==
  << W(\H5555, \HAA), W(\HAAAA, \H55), W(\H5555, \H80),
     W(\H5555, \HAA), W(\HAAAA, \H55), W(\H5555, \H20) >>
erase_writes ==
  << W(\H5555, \HAA), W(\HAAAA, \H55), W(\H5555, \H80),
     W(\H5555, \HAA), W(\HAAAA, \H55), W(\H5555, \H10) >>
erase_delay == 20

\* mutation: the fifth write goes to the first command address
unlock_writes_wrong_address ==
  << W(\H5555, \HAA), W(\HAAAA, \H55), W(\H5555, \H80),
     W(\H5555, \HAA), W(\H5555, \H55), W(\H5555, \H20) >>
unlock_writes ==
  << W(\H5555, \HAA), W(\HAAAA, \H55), W(\H5555, \H80),
     W(\H5555, \HAA), W(\HAAAA, \H55), W(\H5555, \H20) >>
unlock_delay == 10

\* mutation: the last byte is the one of unlock
lock_writes_wrong_code ==
  << W(\H5555, \HAA), W(\HAAAA, \H55), W(\H5555, \H20) >>
lock_writes ==
  << W(\H5555, \HAA), W(\HAAAA, \H55), W(\H5555, \HA0) >>
lock_delay == 10

\* the body of a command handler after its Bus::config_write(): the next
\* Bus::write_bus call of its list, or delay(ms) after the last one
Command(o, writes, ms) ==
  /\ op = o /\ pc = "ret"
  /\ IF seqIdx < Len(writes)
       THEN /\ fn' = "write_bus" /\ pc' = "aw_hi_data"
            /\ addr' = writes[seqIdx + 1].a /\ data' = writes[seqIdx + 1].d
            /\ seqIdx' = seqIdx + 1
            /\ UNCHANGED remaining
       ELSE /\ fn' = "none" /\ pc' = "delay"
            /\ remaining' = ms
            /\ UNCHANGED <<addr, data, seqIdx>>
  /\ trace' = <<>>
  /\ waited' = 0
  /\ UNCHANGED <<op, ret, hw, dev, cycles, entry, hist>>

\* mutation: the fourth and fifth write are exchanged
erase_reordered ==
  Command("erase",
          << erase_writes[1], erase_writes[2], erase_writes[3],
             erase_writes[5], erase_writes[4], erase_writes[6] >>,
          erase_delay)
erase == Command("erase", erase_writes, erase_delay)
\* mutation: the sequence stops after the fifth write
unlock_truncated == Command("unlock", SubSeq(unlock_writes, 1, 5), unlock_delay)
unlock == Command("unlock", unlock_writes, unlock_delay)
\* mutation: nothing is written when the device is already protected
lock_skipped_when_protected ==
  Command("lock", IF sdp THEN << >> ELSE lock_writes, lock_delay)
\* mutation: the delay is a millisecond short
lock_short_delay == Command("lock", lock_writes, lock_delay - 1)
lock == Command("lock", lock_writes, lock_delay)

\* delay(ms): one millisecond passes
delay ==
  /\ pc = "delay" /\ remaining > 0
  /\ remaining' = remaining - 1
  /\ waited' = waited + 1
  /\ WindowCloses
  /\ UNCHANGED <<op, fn, pc, addr, data, seqIdx, ret, hw, trace, cycles, entry, hist>>

(* ------------------------ command-line dispatch ----------------------- *)
Commands == {"erase", "unlock", "lock"}

\* serialCli.run_once(commands) calls one handler
Call(o, f, first, a, d) ==
  /\ op = "idle"
  /\ op' = o /\ fn' = f /\ pc' = first
  /\ addr' = a /\ data' = d
  /\ seqIdx' = 0 /\ remaining' = 0 /\ ret' = -1
  /\ trace' = <<>> /\ cycles' = <<>>
  /\ entry' = [dataDir |-> dataDir, pins |-> pins, mem |-> mem, sdp |-> sdp]
  /\ UNCHANGED <<hw, dev, waited, hist>>

call_config_write == Call("config_write", "config_write", "cw_addr", 0, 0)
call_config_read == Call("config_read", "config_read", "cr_addr", 0, 0)
call_write_bus ==
  \E a \in Addrs, d \in Bytes : Call("write_bus", "write_bus", "aw_hi_data", a, d)
call_read_bus == \E a \in Addrs : Call("read_bus", "read_bus", "rb_out", a, 0)
call_erase == Call("erase", "config_write", "cw_addr", 0, 0)
call_unlock == Call("unlock", "config_write", "cw_addr", 0, 0)
call_lock == Call("lock", "config_write", "cw_addr", 0, 0)

\* the bus is in the state config_write() leaves it in
WriteMode(dd, ps) ==
  /\ dd = "out"
  /\ \A n \in PinNames : Driven(ps[n])
  /\ ps["re"].lvl = ActiveLowDisable /\ ps["we"].lvl = ActiveLowDisable
  /\ ps["msb"].lvl = ActiveHighDisable /\ ps["lsb"].lvl = ActiveHighDisable

NoMon == [k |-> "none", n |-> 0, a |-> 0, d |-> 0]

\* the record of completed operations after o(a, d) has completed
MonNext(m, o, a, d, e) ==
  IF o = "write_bus"
    THEN IF ~e.sdp /\ WriteMode(e.dataDir, e.pins) /\ a = DevAddr(a)
           THEN [k |-> "wrote", n |-> 1, a |-> a, d |-> d]
           ELSE NoMon
  ELSE IF o = "erase" THEN [k |-> "erased", n |-> 1, a |-> 0, d |-> 0]
  ELSE IF o = "config_read" /\ m.n = 1 THEN [m EXCEPT !.n = 2]
  ELSE NoMon

\* the handler returns to loop(); the byte-load window of the device closes
\* before the next command line has arrived
return ==
  /\ \/ op \notin Commands /\ pc = "ret"
     \/ op \in Commands /\ pc = "delay" /\ remaining = 0
  /\ fn' = "none" /\ pc' = "done"
  /\ WindowCloses
  /\ lastCmd' = IF op = "unlock" THEN "unlock"
                ELSE IF op = "lock"
                  THEN (IF lastCmd \in {"unlock", "relock"} THEN "relock" ELSE "lock")
                ELSE lastCmd
  /\ mon' = MonNext(mon, op, addr, data, entry)
  /\ UNCHANGED <<op, addr, data, seqIdx, remaining, ret, hw, trace, cycles,
                 entry, waited>>

NoEntry == [dataDir |-> "in", pins |-> [n \in PinNames |-> [dir |-> "in", lvl |-> 0]],
            mem |-> [c \in Cells |-> 0], sdp |-> FALSE]

\* loop() runs again and waits for the next command line
loop ==
  /\ pc = "done"
  /\ op' = "idle" /\ pc' = "idle"
  /\ addr' = 0 /\ data' = 0 /\ seqIdx' = 0 /\ ret' = -1
  /\ trace' = <<>> /\ cycles' = <<>>
  /\ entry' = NoEntry /\ waited' = 0
  /\ UNCHANGED <<fn, remaining, hw, dev, hist>>

(* --------------------------- specification ---------------------------- *)
Init ==
  /\ op = "idle" /\ fn = "none" /\ pc = "idle"
  /\ addr = 0 /\ data = 0 /\ seqIdx = 0 /\ remaining = 0 /\ ret = -1
  /\ dataDir = "in" /\ dataPort = 0
  /\ pins = [n \in PinNames |-> [dir |-> "in", lvl |-> 0]]
  /\ latchMSB \in FloatBytes /\ latchLSB \in FloatBytes
  /\ \E v \in InitBytes : mem = [c \in Cells |-> v]
  /\ sdp \in BOOLEAN
  /\ cmd = 0 /\ devA = 0
  /\ trace = <<>> /\ cycles = <<>>
  /\ entry = NoEntry /\ waited = 0
  /\ lastCmd = "none" /\ mon = NoMon

Next ==
  \/ call_config_write
  \/ call_config_read
  \/ call_write_bus
  \/ call_read_bus
  \/ call_erase
  \/ call_unlock
  \/ call_lock
  \/ config_write
  \/ write_bus
  \/ config_read
  \/ read_bus
  \/ erase
  \/ unlock
  \/ lock
  \/ delay
  \/ return
  \/ loop

Spec == Init /\ [][Next]_vars

(* ------------------------------- claims ------------------------------- *)
IsPrefix(s, t) == Len(s) <= Len(t) /\ SubSeq(t, 1, Len(s)) = s

\* the pin operations of latching address a: high byte through the MSB
\* latch, then low byte through the LSB latch
LatchTrace(a) ==
  << Ev("data_write", HiByte(a)), Ev("msb", 1), Ev("msb", 0),
     Ev("data_write", LoByte(a)), Ev("lsb", 1), Ev("lsb", 0) >>

WriteTrace(a, d) ==
  LatchTrace(a) \o << Ev("we", 1), Ev("data_write", d), Ev("we", 0) >>

ReadTrace(a, v) ==
  << Ev("dir_data", 1) >> \o LatchTrace(a) \o
  << Ev("dir_data", 0), Ev("re", 1), Ev("nop", 0), Ev("nop", 0),
     Ev("sample", v), Ev("re", 0) >>

\* C5: write_bus(addr, data) performs its pin events in exactly this order:
\* both address halves latched through the data lines, write-enable
\* asserted, data driven onto the data port, write-enable deasserted; the
\* data port holds data when write-enable is deasserted.
C5_WriteOrder ==
  fn = "write_bus" =>
    /\ IsPrefix(trace, WriteTrace(addr, data))
    /\ pc = "wb_we_dis" => dataPort = data /\ pins["we"].lvl = ActiveLowEnable
    /\ pc = "ret" => /\ trace = WriteTrace(addr, data)
                     /\ dataPort = data
                     /\ pins["we"].lvl = ActiveLowDisable

C5_Witness ==
  /\ op = "write_bus" /\ fn = "write_bus" /\ pc = "ret"
  /\ addr = \H1234 /\ data = \HAB
  /\ Len(trace) = 9

\* C6: read_bus(addr) performs its steps in exactly this order: data port
\* to output, address latched, data port to input, read-enable asserted,
\* two settle cycles, data port sampled, read-enable deasserted, sampled
\* byte returned; the data port is sampled only in input mode with
\* read-enable asserted.
C6_ReadOrder ==
  fn = "read_bus" =>
    /\ IsPrefix(trace, ReadTrace(addr, IF ret = -1 THEN 0 ELSE ret))
    /\ pc = "rb_sample" => dataDir = "in" /\ pins["re"].lvl = ActiveLowEnable
    /\ ret # -1 <=> pc \in {"rb_re_dis", "ret"}
    /\ pc = "ret" => /\ trace = ReadTrace(addr, ret)
                     /\ pins["re"].lvl = ActiveLowDisable

C6_Witness ==
  /\ op = "read_bus" /\ fn = "read_bus" /\ pc = "ret"
  /\ addr = \H1234 /\ ret \in InitBytes
  /\ pins["re"] = [dir |-> "out", lvl |-> 1]
  /\ Len(trace) = 13

\* C7: after config_write() returns, from any prior pin state, the address
\* strobes and the data port are output-configured and read-enable and
\* write-enable are output-configured at their idle level.
C7_ConfigWrite ==
  (fn = "config_write" /\ pc = "ret") =>
    /\ dataDir = "out"
    /\ \A n \in PinNames : pins[n].dir = "out"
    /\ pins["re"].lvl = ActiveLowDisable
    /\ pins["we"].lvl = ActiveLowDisable

C7_Witness ==
  /\ op = "config_write" /\ fn = "config_write" /\ pc = "ret"
  /\ entry.dataDir = "in"
  /\ \A n \in PinNames : entry.pins[n] = [dir |-> "in", lvl |-> 0]
  /\ pins["we"] = [dir |-> "out", lvl |-> 1]

\* the write cycles of each command, as the device datasheet lists them
CommandCycles(o) ==
  IF o = "erase"
    THEN << W(21845, 170), W(43690, 85), W(21845, 128),
            W(21845, 170), W(43690, 85), W(21845, 16) >>
  ELSE IF o = "unlock"
    THEN << W(21845, 170), W(43690, 85), W(21845, 128),
            W(21845, 170), W(43690, 85), W(21845, 32) >>
  ELSE << W(21845, 170), W(43690, 85), W(21845, 160) >>

\* C8: the write cycles the device observes during erase(), unlock() and
\* lock() are the command's literal (address, data) list, one cycle per
\* write call, in order, with nothing added, dropped, merged or reordered.
C8_CommandCycles ==
  op \in Commands =>
    /\ IsPrefix(cycles, CommandCycles(op))
    /\ Len(cycles) = IF fn = "write_bus" /\ pc # "ret" THEN seqIdx - 1 ELSE seqIdx
    /\ pc \in {"delay", "done"} => cycles = CommandCycles(op)

C8_Witness ==
  /\ op = "erase" /\ pc = "done"
  /\ Len(cycles) = 6
  /\ cycles[6] = W(21845, 16)

\* the settle time of each command in milliseconds
SettleMs(o) == IF o = "erase" THEN 20 ELSE 10

\* C9: erase() returns no earlier than 20 ms, unlock() and lock() no earlier
\* than 10 ms, after the last write cycle of their sequence; from that
\* cycle until the return no pin changes and no write cycle occurs, and no
\* other operation starts before the return.
C9_Settle ==
  /\ [](op \in Commands /\ pc = "done" => waited >= SettleMs(op))
  /\ [][(op \in Commands /\ pc # "done" /\ Len(cycles) = Len(CommandCycles(op)))
          => (fn' = "none" /\ hw' = hw /\ cycles' = cycles)]_vars
  /\ [][(pc = "delay" /\ remaining > 0) => pc' = "delay"]_vars
  /\ [][(op \in Commands /\ op' # op) => pc = "done"]_vars

C9_Witness ==
  /\ op = "lock" /\ pc = "done"
  /\ waited = 10
  /\ Len(cycles) = 3

\* the strobe and control-line events of a pin trace
Pulses(t) == SelectSeq(t, LAMBDA e : e.k \in {"msb", "lsb", "we", "re"})

\* C10: an address write strobes the most-significant byte into the MSB
\* latch before the least-significant byte into the LSB latch (0x12 then
\* 0x34 for address 0x1234), and both latch writes are complete before
\* write-enable or read-enable is asserted.
C10_MsbFirst ==
  fn \in {"write_bus", "read_bus"} =>
    LET ctl == IF fn = "write_bus" THEN "we" ELSE "re" IN
    /\ IsPrefix(Pulses(trace),
                << Ev("msb", 1), Ev("msb", 0), Ev("lsb", 1), Ev("lsb", 0),
                   Ev(ctl, 1), Ev(ctl, 0) >>)
    /\ \A i \in 1..Len(trace) :
         /\ trace[i] = Ev("msb", 1) => i > 1 /\ trace[i - 1] = Ev("data_write", addr \div 256)
         /\ trace[i] = Ev("lsb", 1) => i > 1 /\ trace[i - 1] = Ev("data_write", addr % 256)
    /\ (/\ WriteEnabled(pins) \/ ReadEnabled(pins)
        /\ Driven(pins["msb"]) /\ Driven(pins["lsb"])
        /\ fn = "write_bus" => dataDir = "out")
         => /\ latchMSB = addr \div 256 /\ latchLSB = addr % 256
            /\ addr = 4660 => latchMSB = 18 /\ latchLSB = 52

C10_Witness ==
  /\ fn = "write_bus" /\ addr = 4660 /\ data = 0
  /\ WriteEnabled(pins)
  /\ latchMSB = 18 /\ latchLSB = 52
  /\ Pulses(trace) = << Ev("msb", 1), Ev("msb", 0), Ev("lsb", 1), Ev("lsb", 0), Ev("we", 1) >>

\* C1: with protection disabled and the bus configured for write,
\* write_bus(a, b) to an address a in device range, followed by
\* config_read() and read_bus(a), returns b.
C1_RoundTrip ==
  (/\ op = "read_bus" /\ pc \in {"rb_re_dis", "ret"}
   /\ mon.k = "wrote" /\ mon.n = 2 /\ addr = mon.a)
    => ret = mon.d

C1_Witness ==
  /\ op = "read_bus" /\ pc = "ret"
  /\ mon = [k |-> "wrote", n |-> 2, a |-> 4660, d |-> 171]
  /\ addr = 4660 /\ ret = 171

\* C2: on a device whose protection is enabled, a write_bus(a, b) leaves
\* every stored byte unchanged; a write_bus(a, b) on a bus configured for
\* write, issued after unlock() with no lock() since, stores b at a.
C2_ProtectedWrite ==
  op = "write_bus" =>
    /\ entry.sdp => mem = entry.mem
    /\ (pc = "done" /\ lastCmd = "unlock" /\ WriteMode(entry.dataDir, entry.pins))
         => mem[DevAddr(addr)] = data

C2_Witness ==
  /\ op = "write_bus" /\ pc = "done"
  /\ lastCmd = "unlock" /\ WriteMode(entry.dataDir, entry.pins)
  /\ addr = 0 /\ data = 171
  /\ entry.mem[0] # 171 /\ mem[0] = 171

\* C3: lock() enables protection; a write_bus issued after lock() with no
\* unlock() since leaves the device contents unchanged, and protection is
\* lifted again by nothing but unlock().
C3_Relock ==
  /\ [](op = "lock" /\ pc = "done" => sdp)
  /\ [](op = "write_bus" /\ lastCmd \in {"lock", "relock"} => mem = entry.mem /\ sdp)
  /\ [][(sdp /\ ~sdp') => (op = "unlock" /\ fn = "write_bus")]_vars

C3_Witness ==
  /\ op = "write_bus" /\ pc = "done"
  /\ lastCmd = "relock"
  /\ WriteMode(entry.dataDir, entry.pins)
  /\ addr = 0 /\ data = 0
  /\ mem[0] = 171

\* C4: after erase() every cell of the device holds 0xFF, whatever it held
\* before, and erase() followed by config_read() and read_bus(a) returns
\* 0xFF for every address a.
C4_Erase ==
  /\ (op = "erase" /\ pc = "done") => \A c \in Cells : mem[c] = 255
  /\ (/\ op = "read_bus" /\ pc \in {"rb_re_dis", "ret"}
      /\ mon.k = "erased" /\ mon.n = 2)
       => ret = 255

C4_Witness ==
  /\ op = "read_bus" /\ pc = "ret"
  /\ mon.k = "erased" /\ mon.n = 2
  /\ lastCmd = "unlock"
  /\ addr = 0 /\ ret = 255

\* the no-op cycles recorded in trace after position i
NopsAfter(t, i) == Cardinality({k \in (i + 1)..Len(t) : t[k].k = "nop"})

\* C11: in every read_bus call at least two no-op cycles elapse between the
\* assertion of read-enable and the sampling of the data port, with
\* read-enable asserted throughout.
C11_ReadSettle ==
  (fn = "read_bus" /\ pc \in {"rb_sample", "rb_re_dis", "ret"}) =>
    \E i \in 1..Len(trace) :
      /\ trace[i] = Ev("re", 1)
      /\ \A k \in (i + 1)..Len(trace) : trace[k].k # "sample" \/ NopsAfter(SubSeq(trace, 1, k), i) >= 2
      /\ pc = "rb_sample" => NopsAfter(trace, i) >= 2 /\ pins["re"].lvl = ActiveLowEnable
      /\ \A k \in (i + 1)..Len(trace) : trace[k].k = "re" => \E j \in (i + 1)..(k - 1) : trace[j].k = "sample"

C11_Witness ==
  /\ op = "read_bus" /\ fn = "read_bus" /\ pc = "rb_re_dis"
  /\ ReadEnabled(pins)
  /\ Len(trace) >= 4
  /\ trace[Len(trace)].k = "sample"
  /\ trace[Len(trace) - 1] = Ev("nop", 0) /\ trace[Len(trace) - 2] = Ev("nop", 0)
  /\ trace[Len(trace) - 3] = Ev("re", 1)

\* a read or write transaction is in progress
InTransaction == fn \in {"read_bus", "write_bus"} /\ pc # "ret"

\* C12: whenever no read_bus or write_bus is in progress, read-enable and
\* write-enable are both deasserted; every read_bus returns with
\* read-enable, and every write_bus with write-enable, back at the idle
\* level.
C12_ControlIdle ==
  /\ ~InTransaction => ~ReadEnabled(pins) /\ ~WriteEnabled(pins)
  /\ (fn = "read_bus" /\ pc = "ret") => pins["re"].lvl = ActiveLowDisable
  /\ (fn = "write_bus" /\ pc = "ret") => pins["we"].lvl = ActiveLowDisable

C12_Witness ==
  /\ op = "read_bus" /\ fn = "read_bus" /\ pc = "ret"
  /\ Driven(pins["re"]) /\ Driven(pins["we"])
  /\ Ev("re", 1) \in {trace[i] : i \in 1..Len(trace)}
  /\ trace[Len(trace)] = Ev("re", 0)
  /\ ~ReadEnabled(pins) /\ ~WriteEnabled(pins)

ConfigWriteTrace ==
  << Ev("dir_msb", 1), Ev("dir_lsb", 1), Ev("dir_data", 1),
     Ev("dir_re", 1), Ev("dir_we", 1) >>

\* a pin trace without the values its samples returned
MaskSamples(t) ==
  [i \in 1..Len(t) |-> IF t[i].k = "sample" THEN Ev("sample", 0) ELSE t[i]]

\* the pin operations of one Bus call, from the call and its arguments alone
CallTrace(f, a, d) ==
  IF f = "write_bus" THEN WriteTrace(a, d)
  ELSE IF f = "read_bus" THEN ReadTrace(a, 0)
  ELSE IF f = "config_write" THEN ConfigWriteTrace
  ELSE << >>

\* the statement a Bus call is at after n pin operations
StmtAfter(f, n) ==
  LET latch == << "aw_hi_data", "aw_hi_en", "aw_hi_dis",
                  "aw_lo_data", "aw_lo_en", "aw_lo_dis" >> IN
  IF f = "write_bus"
    THEN (latch \o << "wb_we_en", "wb_data", "wb_we_dis", "ret" >>)[n + 1]
  ELSE IF f = "read_bus"
    THEN (<< "rb_out" >> \o latch \o
          << "rb_in", "rb_re_en", "rb_nop1", "rb_nop2", "rb_sample",
             "rb_re_dis", "ret" >>)[n + 1]
  ELSE << "cw_addr", "none", "cw_data", "cw_re", "cw_we", "ret" >>[n + 1]

\* C14: the pin operations issued by read_bus, write_bus, erase, unlock and
\* lock, and the statement executed next, are a function of the operation,
\* its arguments and the number of operations already issued: they are the
\* same for every device content and protection state.
C14_FixedSequence ==
  /\ fn \in {"write_bus", "read_bus"} =>
       /\ IsPrefix(MaskSamples(trace), CallTrace(fn, addr, data))
       /\ pc = StmtAfter(fn, Len(trace))
  /\ op \in Commands =>
       /\ fn = "config_write" =>
            /\ seqIdx = 0
            /\ IsPrefix(trace, ConfigWriteTrace)
            /\ pc = StmtAfter(fn, Len(trace))
       /\ fn = "write_bus" =>
            /\ seqIdx \in 1..Len(CommandCycles(op))
            /\ W(addr, data) = CommandCycles(op)[seqIdx]
       /\ fn = "none" =>
            /\ pc \in {"delay", "done"}
            /\ seqIdx = Len(CommandCycles(op))
            /\ trace = << >>
            /\ remaining + waited = SettleMs(op)
            /\ pc = "done" => remaining = 0

C14_Witness ==
  /\ op = "erase" /\ pc = "done"
  /\ entry.sdp /\ entry.mem[0] = \HAB
  /\ seqIdx = 6 /\ waited = 20
  /\ cycles = CommandCycles("erase")

\* the controller executes the statements of a called handler one after
\* the other: nothing preempts it and delay() counts real milliseconds
Step ==
  \/ config_write
  \/ write_bus
  \/ config_read
  \/ read_bus
  \/ erase
  \/ unlock
  \/ lock
  \/ delay
  \/ return

LiveSpec == Init /\ [][Next]_vars /\ WF_vars(Step)

Operations == {"config_read", "config_write", "read_bus", "write_bus"} \cup Commands

\* C15: every call of config_read, config_write, read_bus, write_bus,
\* erase, unlock and lock eventually returns, whatever its arguments and the
\* device state: a call stays the running operation until it has returned,
\* and the controller is again and again outside a call or at its return;
\* the only waits are the fixed delays of the commands, which count down
\* from 20 resp. 10 milliseconds.
C15_Terminates ==
  /\ [][(op \in Operations /\ pc # "done") => op' = op]_vars
  /\ []<>(op \notin Operations \/ pc = "done")
  /\ [](pc = "delay" => /\ op \in Commands
                        /\ remaining \in 0..SettleMs(op)
                        /\ remaining + waited = SettleMs(op))
  /\ [][(pc = "delay" /\ pc' = "delay") => remaining' = remaining - 1]_vars

C15_Witness ==
  /\ op = "erase" /\ pc = "done"
  /\ entry.sdp
  /\ waited = 20 /\ remaining = 0
  /\ Len(cycles) = 6

\* C16: unlock() and lock() are taken by the device as commands, not as
\* data: for every prior content and protection state, every stored byte,
\* the bytes at the two command addresses included, is the same during and
\* after the call as before it.
C16_CommandsStoreNothing ==
  op \in {"unlock", "lock"} =>
    /\ mem = entry.mem
    /\ mem[CmdAddr1] = entry.mem[CmdAddr1] /\ mem[CmdAddr2] = entry.mem[CmdAddr2]
    /\ pc = "done" => cmd = 0 /\ sdp = (op = "lock")

C16_Witness ==
  /\ op = "lock" /\ pc = "done"
  /\ ~entry.sdp /\ sdp
  /\ Len(cycles) = 3
  /\ entry.mem[CmdAddr1] = \H3C /\ mem[CmdAddr1] = \H3C
  /\ entry.mem[CmdAddr2] = \H3C /\ mem[CmdAddr2] = \H3C

\* the controller and the device both drive the shared data lines
Contention(dd, ps) == dd = "out" /\ ReadEnabled(ps)

\* C17: in every state reachable from power-on the data port is never
\* output-configured while read-enable is asserted.
C17_NoContention ==
  /\ ~Contention(dataDir, pins)
  /\ ReadEnabled(pins) => fn = "read_bus" /\ dataDir = "in"

C17_Witness ==
  /\ op = "read_bus" /\ fn = "read_bus" /\ pc = "rb_sample"
  /\ entry.dataDir = "out" /\ WriteMode(entry.dataDir, entry.pins)
  /\ Ev("dir_data", 1) \in {trace[i] : i \in 1..Len(trace)}
  /\ ReadEnabled(pins) /\ dataDir = "in"

\* C18: in every state reachable from power-on at most one of read-enable
\* and write-enable is asserted; no statement of write_bus changes the
\* read-enable pin and no statement of read_bus changes the write-enable
\* pin.
C18_OneControlLine ==
  /\ [](~(ReadEnabled(pins) /\ WriteEnabled(pins)))
  /\ [](WriteEnabled(pins) => fn = "write_bus")
  /\ [][fn = "write_bus" => pins'["re"] = pins["re"]]_vars
  /\ [][fn = "read_bus" => pins'["we"] = pins["we"]]_vars

C18_Witness ==
  /\ op = "write_bus" /\ fn = "write_bus" /\ pc = "wb_we_dis"
  /\ WriteEnabled(pins)
  /\ pins["re"] = [dir |-> "out", lvl |-> ActiveLowDisable]
  /\ pins["re"] = entry.pins["re"]
  /\ Ev("we", 1) \in {trace[i] : i \in 1..Len(trace)}

\* C19: whatever bus mode erase(), unlock() or lock() is called in, each of
\* its write cycles is performed with the data port and all strobe and
\* control pins output-configured, because the handler calls
\* config_write() before its first write; the device is then delivered the
\* command's write cycles, the same after a read as after config_write().
C19_CommandsReconfigure ==
  op \in Commands =>
    /\ fn = "write_bus" =>
         /\ dataDir = "out"
         /\ \A n \in PinNames : Driven(pins[n])
         /\ pc = "aw_hi_data" => WriteMode(dataDir, pins)
    /\ Len(cycles) > 0 => fn = "write_bus" \/ pc \in {"delay", "done"}
    /\ pc \in {"delay", "done"} => cycles = CommandCycles(op)

C19_Witness ==
  /\ op = "unlock" /\ pc = "done"
  /\ entry.dataDir = "in"
  /\ \A n \in PinNames : Driven(entry.pins[n])
  /\ dataDir = "out"
  /\ cycles = CommandCycles("unlock")

\* the directions of the strobe and control pins
PinDirs(ps) == [n \in PinNames |-> ps[n].dir]

\* C20: no statement of write_bus changes the direction of the data port,
\* of an address strobe or of a control line; no statement of read_bus
\* changes the direction of a strobe or control line, and read_bus returns
\* with the data port input-configured whatever its direction was at the
\* call; after a read_bus the bus is not in the write configuration, and
\* the data port becomes an output again only in config_write() or for the
\* address phase of another read_bus.
C20_DirectionFrame ==
  /\ [][fn = "write_bus" => (dataDir' = dataDir /\ PinDirs(pins') = PinDirs(pins))]_vars
  /\ [][fn = "read_bus" => PinDirs(pins') = PinDirs(pins)]_vars
  /\ []((op = "write_bus" /\ pc \in {"ret", "done"})
          => dataDir = entry.dataDir /\ PinDirs(pins) = PinDirs(entry.pins))
  /\ []((op = "read_bus" /\ pc \in {"ret", "done"})
          => /\ dataDir = "in"
             /\ PinDirs(pins) = PinDirs(entry.pins)
             /\ ~WriteMode(dataDir, pins))
  /\ [][(dataDir = "in" /\ dataDir' = "out")
          => (fn = "config_write" \/ (fn = "read_bus" /\ pc = "rb_out"))]_vars

C20_Witness ==
  /\ op = "read_bus" /\ pc = "done"
  /\ WriteMode(entry.dataDir, entry.pins)
  /\ dataDir = "in"
  /\ PinDirs(pins) = PinDirs(entry.pins)
  /\ ~WriteMode(dataDir, pins)
=============================================================================
